---- MODULE Spec2Model ----
(***************************************************************************)
(* retrieve_climate_data_from_prism.py: the user types a start and an end  *)
(* date, the coordinates are imported from the CSV files of .coordinates,  *)
(* and for every coordinate one request is posted to the grid-data service *)
(* and its daily rows are appended to .results/output_<timestamp>.csv.     *)
(*                                                                         *)
(* Text that the program inspects character by character (typed dates,     *)
(* file names) is a sequence of one-character strings; text it only passes *)
(* on (ids, lat, lon, cell values, response bodies) is a TLA+ string.      *)
(***************************************************************************)
EXTENDS Integers, Sequences, FiniteSets, TLC

VARIABLES
    pc,             \* position of the script
    stdin,          \* the lines the user has yet to type
    user_input,     \* the string input() returned last
    prompt_result,  \* how the last prompt iteration ended: returned or looped
    sdate, edate,   \* the dates returned by the two prompts
    directory,      \* what os.listdir/open saw in .coordinates
    coordinates,    \* the list import_coordinates returned
    file_is_empty,  \* line 118
    prior,          \* content of the output file when it was opened
    disk,           \* rows of the output file that reached the operating system
    buffered,       \* rows written through csv.writer still in the file object's buffer
    idx,            \* position of the for loop of line 128 (1-based)
    request,        \* the params of the request in flight
    json_data,      \* response.json() of the current coordinate
    rowIdx,         \* position of the for loop of line 142 (1-based)
    served,         \* what requests.post did for each coordinate so far, in order
    console,        \* the lines printed so far
    exception       \* the uncaught exception that ended the script, if any

vars == <<pc, stdin, user_input, prompt_result, sdate, edate, directory, coordinates,
          file_is_empty, prior, disk, buffered, idx, request, json_data, rowIdx,
          served, console, exception>>

-----------------------------------------------------------------------------
(* Bounds of the model *)

MaxDateLen == 11   \* longest typed string of the generated date inputs
MaxFiles == 2      \* files in .coordinates
MaxCoords == 2     \* rows of all the CSV files of .coordinates together
MaxDays == 2       \* rows of one response's data
BufRows == 2       \* rows the file object's buffer holds before it writes through

-----------------------------------------------------------------------------
(* Sequences *)

Last(s) == s[Len(s)]

SeqsUpTo(S, n) == UNION {[1..k -> S] : k \in 0..n}

Count(s, x) == Cardinality({k \in 1..Len(s) : s[k] = x})

IsPrefix(p, s) == Len(p) <= Len(s) /\ SubSeq(s, 1, Len(p)) = p

-----------------------------------------------------------------------------
(* The date prompts, lines 55-71 *)

\* The characters \d matches among those typed here (the ASCII digits; for a str
\* pattern \d matches the decimal digits of other scripts as well)
Digits == {"0", "1", "2", "3", "4", "5", "6", "7", "8", "9"}

\* r'\d{4}-\d{2}-\d{2}', one token per character it consumes
DatePattern == <<"\\d", "\\d", "\\d", "\\d", "-", "\\d", "\\d", "-", "\\d", "\\d">>

TokenMatches(tok, ch) == IF tok = "\\d" THEN ch \in Digits ELSE ch = tok

\* The number of characters of s the pattern consumes from the left, -1 when it
\* does not match there (what re.match reports as the end of the match).
RECURSIVE MatchEnd(_, _)
MatchEnd(pat, s) ==
    IF pat = <<>> THEN 0
    ELSE IF s = <<>> \/ ~TokenMatches(Head(pat), Head(s)) THEN -1
    ELSE LET rest == MatchEnd(Tail(pat), Tail(s))
         IN IF rest < 0 THEN -1 ELSE rest + 1

\* re.match in place of re.fullmatch: trailing text goes unnoticed
prefixmatch(pat, s) == MatchEnd(pat, s) >= 0

\* re.fullmatch(pattern, string) is not None
fullmatch(pat, s) == MatchEnd(pat, s) = Len(s)

\* Every printed line is the sequence of its parts: the literal text and the
\* formatted values.
IncorrectFormat == <<"Incorrect format. Please make sure to follow the YYYY-MM-DD pattern.">>

\* Typed lines. The generated ones are all strings over {9, -} up to
\* MaxDateLen characters; the others are the dates the documentation names.
Date_2020_01_01 == <<"2", "0", "2", "0", "-", "0", "1", "-", "0", "1">>
Date_2023_99_99 == <<"2", "0", "2", "3", "-", "9", "9", "-", "9", "9">>
Date_08_03_2023 == <<"0", "8", "-", "0", "3", "-", "2", "0", "2", "3">>
Date_slashes == <<"2", "0", "2", "3", "/", "0", "8", "/", "0", "3">>
Date_2023_8_3 == <<"2", "0", "2", "3", "-", "8", "-", "3">>

NamedDateInputs ==
    {Date_2020_01_01, Date_2023_99_99, Date_08_03_2023, Date_slashes, Date_2023_8_3}

GeneratedDateInputs == SeqsUpTo({"9", "-"}, MaxDateLen)

AllDateInputs == GeneratedDateInputs \cup NamedDateInputs

\* What the user types in the runs that go on to fetch data: a malformed
\* line and two dates, or too few lines.
RunStdins ==
    { <<Date_2023_8_3, Date_2020_01_01, Date_2023_99_99>>,
      <<Date_2020_01_01, Date_slashes>>,
      <<>> }

\* What the user types when only the prompts run: any line at either prompt
DateStdins ==
    {<<s, t>> : s \in AllDateInputs, t \in NamedDateInputs}
        \cup {<<Date_2020_01_01, s>> : s \in AllDateInputs}
        \cup {<<Date_2023_8_3, Date_2023_99_99, Date_2020_01_01>>}

\* One iteration of the while loop of lines 57-62
get_start_date_input ==
    /\ pc = "start_date"
    /\ IF stdin = <<>>
       THEN /\ exception' = "EOFError"          \* input() at the end of the input
            /\ pc' = "aborted"
            /\ UNCHANGED <<stdin, user_input, prompt_result, sdate, console>>
       ELSE /\ user_input' = Head(stdin)
            /\ stdin' = Tail(stdin)
            /\ UNCHANGED exception
            /\ IF fullmatch(DatePattern, Head(stdin))
               THEN /\ sdate' = Head(stdin)
                    /\ prompt_result' = "returned"
                    /\ pc' = "end_date"
                    /\ UNCHANGED console
               ELSE /\ console' = Append(console, IncorrectFormat)
                    /\ prompt_result' = "looped"
                    /\ UNCHANGED <<sdate, pc>>
    /\ UNCHANGED <<edate, directory, coordinates, file_is_empty, prior, disk,
                   buffered, idx, request, json_data, rowIdx, served>>

\* One iteration of the while loop of lines 66-71
get_end_date_input ==
    /\ pc = "end_date"
    /\ IF stdin = <<>>
       THEN /\ exception' = "EOFError"
            /\ pc' = "aborted"
            /\ UNCHANGED <<stdin, user_input, prompt_result, edate, console>>
       ELSE /\ user_input' = Head(stdin)
            /\ stdin' = Tail(stdin)
            /\ UNCHANGED exception
            /\ IF fullmatch(DatePattern, Head(stdin))
               THEN /\ edate' = Head(stdin)
                    /\ prompt_result' = "returned"
                    /\ pc' = "import"
                    /\ UNCHANGED console
               ELSE /\ console' = Append(console, IncorrectFormat)
                    /\ prompt_result' = "looped"
                    /\ UNCHANGED <<edate, pc>>
    /\ UNCHANGED <<sdate, directory, coordinates, file_is_empty, prior, disk,
                   buffered, idx, request, json_data, rowIdx, served>>

-----------------------------------------------------------------------------
(* import_coordinates, lines 73-91 *)

\* The local variable csv_data_as_dict: unbound until a statement assigns it
Unbound == [bound |-> FALSE, value |-> <<>>]
Bound(v) == [bound |-> TRUE, value |-> v]

\* Rows as csv.DictReader yields them: the cells under id, lat and lon
CoordA1 == [id |-> "A1", lat |-> "40.0", lon |-> "-75.0"]
CoordA2 == [id |-> "A2", lat |-> "41.5", lon |-> "-76.5"]
CoordA1b == [id |-> "A1", lat |-> "42.0", lon |-> "-77.0"]   \* the id A1 again
CoordRows == {CoordA1, CoordA2, CoordA1b}

Name_a_csv == <<"a", ".", "c", "s", "v">>
Name_b_csv == <<"b", ".", "c", "s", "v">>
Name_n_txt == <<"n", ".", "t", "x", "t">>

DotCsv == <<".", "c", "s", "v">>

\* str.endswith
endswith(s, suffix) ==
    /\ Len(s) >= Len(suffix)
    /\ SubSeq(s, Len(s) - Len(suffix) + 1, Len(s)) = suffix

\* A file of .coordinates: its name and the data rows of its content. The
\* content of a file that is not opened plays no part and is left empty.
Files ==
    {[name |-> n, rows |-> r] : n \in {Name_a_csv, Name_b_csv}, r \in SeqsUpTo(CoordRows, MaxCoords)}
        \cup {[name |-> Name_n_txt, rows |-> <<>>]}

RECURSIVE TotalRows(_)
TotalRows(files) ==
    IF files = <<>> THEN 0 ELSE Len(Head(files).rows) + TotalRows(Tail(files))

\* os.listdir: the files in an order the operating system chooses
Listings ==
    {fs \in SeqsUpTo(Files, MaxFiles) :
        /\ \A i, j \in 1..Len(fs) : i # j => fs[i].name # fs[j].name
        /\ TotalRows(fs) <= MaxCoords}

Directories ==
    {[state |-> "ok", files |-> fs] : fs \in Listings}
        \cup {[state |-> "missing", files |-> <<>>], [state |-> "unreadable", files |-> <<>>]}

\* Lines 79-86: csv_data_as_dict after the for loop over the listing, started
\* from its value before the loop.
RECURSIVE ReadListing(_, _)
ReadListing(files, csv_data_as_dict) ==
    IF files = <<>> THEN csv_data_as_dict
    ELSE ReadListing(Tail(files),
                     IF endswith(Head(files).name, DotCsv)
                     THEN Bound(Head(files).rows)
                     ELSE csv_data_as_dict)

DirectoryNotFound == <<"Directory ", ".coordinates", " not found.">>
NoPermission == <<"No permission to read directory ", ".coordinates", ".">>

\* The value of csv_data_as_dict at line 91
LoadedFrom(d) == IF d.state = "ok" THEN ReadListing(d.files, Unbound) ELSE Unbound

import_coordinates ==
    /\ pc = "import"
    /\ \E d \in Directories :
        /\ directory' = d
        /\ console' = IF d.state = "missing" THEN Append(console, DirectoryNotFound)
                      ELSE IF d.state = "unreadable" THEN Append(console, NoPermission)
                      ELSE console
        /\ IF ~LoadedFrom(d).bound
           THEN /\ exception' = "UnboundLocalError"      \* line 91
                /\ pc' = "aborted"
                /\ UNCHANGED coordinates
           ELSE /\ coordinates' = LoadedFrom(d).value
                /\ pc' = "open"
                /\ UNCHANGED exception
    /\ UNCHANGED <<stdin, user_input, prompt_result, sdate, edate, file_is_empty, prior,
                   disk, buffered, idx, request, json_data, rowIdx, served>>

-----------------------------------------------------------------------------
(* fetch_prism_daily_data, lines 93-147 *)

Grid == 21
Elems == "maxt,mint,pcpn"

headers == <<"id", "date", "maxt_F", "mint_F", "pcpn_inches">>

\* A row an earlier run sharing the timestamp left in the output file
PriorRow == <<"Z9", "2019-12-31", "30", "10", "0.0">>

\* The output file as lines 114-118 find it
ExistingFiles ==
    { [exists |-> FALSE, content |-> <<>>],
      [exists |-> TRUE, content |-> <<>>],
      [exists |-> TRUE, content |-> <<headers, PriorRow>>] }

\* The header is written whatever the file holds
AlwaysEmpty(f) == TRUE

\* Line 118: not os.path.exists(file_path) or os.stat(file_path).st_size == 0
FileIsEmpty(f) == ~f.exists \/ Len(f.content) = 0

\* The rows of the service's daily series, a row being [date, maxt, mint, pcpn]
Day1 == <<"2020-01-01", "32", "20", "0.1">>
Day2 == <<"2020-01-02", "30", "18", "0.0">>
Day3 == <<"2020-01-03", "28", "16", "0.2">>
Day4 == <<"2020-01-04", "26", "14", "0.3">>
Series == <<Day1, Day2, Day3, Day4>>

DataSeqs == {SubSeq(Series, 1, m) : m \in 0..MaxDays}

\* What requests.post can do: raise (timeout or no connection), or return a
\* response. A response of status 200 carries a JSON object with a data
\* field, or a body without one (not JSON, or JSON reporting an error).
Timeout == [raised |-> TRUE, status_code |-> 0, text |-> "", has_data |-> FALSE, data |-> <<>>]
Success(d) == [raised |-> FALSE, status_code |-> 200, text |-> "{data}", has_data |-> TRUE, data |-> d]
NoData == [raised |-> FALSE, status_code |-> 200, text |-> "{error}", has_data |-> FALSE, data |-> <<>>]
BadRequest == [raised |-> FALSE, status_code |-> 400, text |-> "Invalid request", has_data |-> FALSE, data |-> <<>>]

Outcomes == {Timeout, NoData, BadRequest} \cup {Success(d) : d \in DataSeqs}

\* Any response that is not a server error counts as a success
NotServerError(code) == code < 500

\* Line 140
StatusOk(code) == code = 200

\* The row is written as the service returned it
BareRow(id, row) == row

\* Line 143: [str(id)] + row; id is a cell of the CSV file, a string already
DataRow(id, row) == <<id>> \o row

\* Line 133-138
Params(entry) ==
    [loc |-> <<entry.lon, ",", entry.lat>>, sdate |-> sdate, edate |-> edate,
     grid |-> Grid, elems |-> Elems]

NoRequest == [loc |-> <<>>, sdate |-> <<>>, edate |-> <<>>, grid |-> 0, elems |-> ""]

\* Lines 144, 146, 147: the printed line, the formatted values as its parts
FetchingLine(id) == <<"Fetching data for id ", id, "...">>
ErrorLine(lon, lat, status_code, text) ==
    <<"Error for coordinates ", lon, ", ", lat, ": ", ToString(status_code), ", ", text>>
TaskComplete == <<"Task complete. Check the '.results' subdirectory for CSV output.">>

\* writer.writerow on the file object of line 121, opened with the default
\* buffering: the row stays in the buffer until the buffer is full.
AfterWrite(row) ==
    LET b == Append(buffered, row)
    IN IF Len(b) > BufRows THEN [disk |-> disk \o b, buffered |-> <<>>]
       ELSE [disk |-> disk, buffered |-> b]

\* Leaving the with block of line 121, normally or by an exception
AfterClose == [disk |-> disk \o buffered, buffered |-> <<>>]

\* Lines 109-126
open_output ==
    /\ pc = "open"
    /\ \E f \in ExistingFiles :
        /\ file_is_empty' = FileIsEmpty(f)
        /\ prior' = f.content
        /\ disk' = f.content
        /\ buffered' = IF FileIsEmpty(f) THEN <<headers>> ELSE <<>>
    /\ idx' = 1
    /\ pc' = "loop"
    /\ UNCHANGED <<stdin, user_input, prompt_result, sdate, edate, directory, coordinates,
                   request, json_data, rowIdx, served, console, exception>>

\* Lines 128-138, and 147 when the list is exhausted
next_coordinate ==
    /\ pc = "loop"
    /\ IF idx <= Len(coordinates)
       THEN /\ request' = Params(coordinates[idx])
            /\ pc' = "post"
            /\ UNCHANGED <<disk, buffered, console>>
       ELSE /\ console' = Append(console, TaskComplete)
            /\ disk' = AfterClose.disk
            /\ buffered' = AfterClose.buffered
            /\ pc' = "done"
            /\ UNCHANGED request
    /\ UNCHANGED <<stdin, user_input, prompt_result, sdate, edate, directory, coordinates,
                   file_is_empty, prior, idx, json_data, rowIdx, served, exception>>

\* Lines 139-141 and 145-146
post ==
    /\ pc = "post"
    /\ \E r \in Outcomes :
        /\ served' = Append(served, r)
        /\ IF r.raised
           THEN /\ exception' = "Timeout"
                /\ disk' = AfterClose.disk
                /\ buffered' = AfterClose.buffered
                /\ pc' = "aborted"
                /\ UNCHANGED <<json_data, rowIdx, idx, console>>
           ELSE IF StatusOk(r.status_code)
           THEN IF r.has_data
                THEN /\ json_data' = r.data
                     /\ rowIdx' = 1
                     /\ pc' = "rows"
                     /\ UNCHANGED <<disk, buffered, idx, console, exception>>
                ELSE /\ exception' = "KeyError"
                     /\ disk' = AfterClose.disk
                     /\ buffered' = AfterClose.buffered
                     /\ pc' = "aborted"
                     /\ UNCHANGED <<json_data, rowIdx, idx, console>>
           ELSE /\ console' = Append(console,
                        ErrorLine(coordinates[idx].lon, coordinates[idx].lat,
                                  r.status_code, r.text))
                /\ idx' = idx + 1
                /\ pc' = "loop"
                /\ UNCHANGED <<json_data, rowIdx, disk, buffered, exception>>
    /\ UNCHANGED <<stdin, user_input, prompt_result, sdate, edate, directory, coordinates,
                   file_is_empty, prior, request>>

\* Lines 142-144
write_rows ==
    /\ pc = "rows"
    /\ IF rowIdx <= Len(json_data)
       THEN /\ disk' = AfterWrite(DataRow(coordinates[idx].id, json_data[rowIdx])).disk
            /\ buffered' = AfterWrite(DataRow(coordinates[idx].id, json_data[rowIdx])).buffered
            /\ rowIdx' = rowIdx + 1
            /\ UNCHANGED <<idx, pc, console>>
       ELSE /\ console' = Append(console, FetchingLine(coordinates[idx].id))
            /\ idx' = idx + 1
            /\ pc' = "loop"
            /\ UNCHANGED <<disk, buffered, rowIdx>>
    /\ UNCHANGED <<stdin, user_input, prompt_result, sdate, edate, directory, coordinates,
                   file_is_empty, prior, request, json_data, served, exception>>

\* The process is killed while the output file is open: nothing runs any
\* more, and what the buffer held never reaches the file.
kill ==
    /\ pc \in {"loop", "post", "rows"}
    /\ pc' = "killed"
    /\ buffered' = <<>>
    /\ UNCHANGED <<stdin, user_input, prompt_result, sdate, edate, directory, coordinates,
                   file_is_empty, prior, disk, idx, request, json_data, rowIdx,
                   served, console, exception>>

-----------------------------------------------------------------------------
(* Specifications *)

Started ==
    /\ pc = "start_date"
    /\ user_input = <<>>
    /\ prompt_result = "none"
    /\ sdate = <<>>
    /\ edate = <<>>
    /\ directory = [state |-> "unread", files |-> <<>>]
    /\ coordinates = <<>>
    /\ file_is_empty = FALSE
    /\ prior = <<>>
    /\ disk = <<>>
    /\ buffered = <<>>
    /\ idx = 0
    /\ request = NoRequest
    /\ json_data = <<>>
    /\ rowIdx = 0
    /\ served = <<>>
    /\ console = <<>>
    /\ exception = "none"

Init == Started /\ stdin \in RunStdins

Next ==
    \/ get_start_date_input
    \/ get_end_date_input
    \/ import_coordinates
    \/ open_output
    \/ next_coordinate
    \/ post
    \/ write_rows
    \/ kill

Spec == Init /\ [][Next]_vars

\* The prompts alone, over every typed line of AllDateInputs
DateInit == Started /\ stdin \in DateStdins

DateNext == get_start_date_input \/ get_end_date_input

DateSpec == DateInit /\ [][DateNext]_vars

\* The script left to run: each statement is executed once it can be
RunNext ==
    \/ get_start_date_input
    \/ get_end_date_input
    \/ import_coordinates
    \/ open_output
    \/ next_coordinate
    \/ post
    \/ write_rows

FairSpec == Init /\ [][RunNext]_vars /\ WF_vars(RunNext)

-----------------------------------------------------------------------------
(* What the properties speak of *)

\* The output file as the run has written it; once the process is killed,
\* what reached the operating system.
Artifact == disk \o buffered

\* The rows the run appended after the header
Written ==
    SubSeq(Artifact, Len(prior) + (IF file_is_empty THEN 1 ELSE 0) + 1, Len(Artifact))

Succeeded(i) == ~served[i].raised /\ served[i].status_code = 200 /\ served[i].has_data
Failed(i) == ~served[i].raised /\ served[i].status_code # 200

\* The series of coordinate i, each row behind the coordinate's id
IdPrefixed(i) ==
    [j \in 1..Len(served[i].data) |-> <<coordinates[i].id>> \o served[i].data[j]]

\* The id-prefixed series of the successful coordinates among the first k,
\* one after the other in input order
RECURSIVE SeriesUpTo(_)
SeriesUpTo(k) ==
    IF k = 0 THEN <<>>
    ELSE SeriesUpTo(k - 1) \o (IF Succeeded(k) THEN IdPrefixed(k) ELSE <<>>)

RECURSIVE SeriesLength(_)
SeriesLength(k) ==
    IF k = 0 THEN 0
    ELSE SeriesLength(k - 1) + (IF Succeeded(k) THEN Len(served[k].data) ELSE 0)

Contains(line, part) == \E k \in 1..Len(line) : line[k] = part

IsErrorLine(line) == Len(line) = 8 /\ line[1] = "Error for coordinates "

ErrorLines == {k \in 1..Len(console) : IsErrorLine(console[k])}

\* Every query so far returned a response: status 200 with a data sequence,
\* or a non-success status
OnlyStatusOutcomes ==
    \A i \in 1..Len(served) : Succeeded(i) \/ Failed(i)

HasDateShape(s) ==
    /\ Len(s) = 10
    /\ \A k \in 1..10 : IF k \in {5, 8} THEN s[k] = "-" ELSE s[k] \in Digits

RECURSIVE AllCsvRows(_)
AllCsvRows(files) ==
    IF files = <<>> THEN <<>>
    ELSE (IF endswith(Head(files).name, DotCsv) THEN Head(files).rows ELSE <<>>)
            \o AllCsvRows(Tail(files))

Loaded == pc \in {"open", "loop", "post", "rows", "done", "killed"} \/ served # <<>>

-----------------------------------------------------------------------------
(* Properties *)

\* C1, as claimed: when every query returned status 200 with data or a
\* non-success status, the run does not abort, and at its end no data row
\* carries the id of a failed coordinate, every row of every successful
\* coordinate is in the file, and there is one failure report per failed
\* coordinate.
C1_NoRowWithFailedId ==
    OnlyStatusOutcomes =>
        /\ served # <<>> => pc # "aborted"
        /\ pc = "done" =>
            /\ Len(served) = Len(coordinates)
            /\ \A k \in 1..Len(Written) : \A i \in 1..Len(served) :
                    Failed(i) => Written[k][1] # coordinates[i].id
            /\ \A i \in 1..Len(served) : Succeeded(i) =>
                    \A j \in 1..Len(served[i].data) :
                        \E k \in 1..Len(Written) : Written[k] = IdPrefixed(i)[j]
            /\ Cardinality(ErrorLines) = Cardinality({i \in 1..Len(served) : Failed(i)})

\* C1, amended: under the same outcomes the run does not abort, and at its
\* end every data row is a row of a successful coordinate (so a row carries
\* the id of a failed coordinate only when a successful coordinate has the
\* same id), every row of every successful coordinate is in the file, there
\* are as many data rows as the successful series have rows, and there is one
\* failure report per failed coordinate.
C1_RowsOfSuccessfulOnly ==
    OnlyStatusOutcomes =>
        /\ served # <<>> => pc # "aborted"
        /\ pc = "done" =>
            /\ Len(served) = Len(coordinates)
            /\ \A k \in 1..Len(Written) : \E i \in 1..Len(served) :
                    /\ Succeeded(i)
                    /\ \E j \in 1..Len(served[i].data) : Written[k] = IdPrefixed(i)[j]
            /\ \A k \in 1..Len(Written) : \A i \in 1..Len(served) :
                    (Failed(i) /\ Written[k][1] = coordinates[i].id) =>
                        \E m \in 1..Len(served) :
                            Succeeded(m) /\ coordinates[m].id = coordinates[i].id
            /\ \A i \in 1..Len(served) : Succeeded(i) =>
                    \A j \in 1..Len(served[i].data) :
                        \E k \in 1..Len(Written) : Written[k] = IdPrefixed(i)[j]
            /\ Len(Written) = SeriesLength(Len(served))
            /\ Cardinality(ErrorLines) = Cardinality({i \in 1..Len(served) : Failed(i)})

\* A run that ended with one coordinate served and one refused, the served
\* one's rows in the file
C1_Witness ==
    /\ pc = "done"
    /\ Len(served) = 2
    /\ OnlyStatusOutcomes
    /\ \E i, m \in 1..2 : Succeeded(i) /\ Failed(m) /\ Len(served[i].data) = 2
    /\ Len(Written) = 2

\* C2: a query that times out is reported as a failure of its coordinate
\* and the run goes on: no exception ends the script, and a failure report
\* naming the coordinate's location is printed.
C2_TimeoutIsolated ==
    \A i \in 1..Len(served) : served[i].raised =>
        /\ exception = "none"
        /\ pc # "aborted"
        /\ \E k \in ErrorLines :
            Contains(console[k], coordinates[i].lon) /\ Contains(console[k], coordinates[i].lat)

\* C3: once the output file holds anything, its first row is the header and
\* the header occurs once in it; the run writes a header row only into a
\* file that was missing or empty when it was opened.
C3_HeaderOnce ==
    /\ Artifact # <<>> => Artifact[1] = headers /\ Count(Artifact, headers) = 1
    /\ \A k \in (Len(prior) + 1)..Len(Artifact) :
            Artifact[k] = headers => file_is_empty /\ prior = <<>> /\ k = 1

\* A run appended a coordinate's rows to a file an earlier run had left, and
\* ended
C3_Witness ==
    /\ pc = "done"
    /\ prior = <<headers, PriorRow>>
    /\ Len(served) = 2
    /\ Len(Artifact) > Len(prior) + 1

\* C4: when the process is killed, the file holds what it held before, the
\* header, and every row of every successful coordinate completed before the
\* one in flight.
C4_CompletedRowsDurable ==
    pc = "killed" =>
        IsPrefix(prior \o (IF file_is_empty THEN <<headers>> ELSE <<>>) \o SeriesUpTo(idx - 1),
                 disk)

\* C5: the imported coordinates are the rows of all the .csv files of the
\* directory, file after file in listing order.
C5_OrderedUnion ==
    (Loaded /\ directory.state = "ok") => coordinates = AllCsvRows(directory.files)

\* C6: a directory that exists and holds no .csv file yields an empty list
\* of coordinates and the run does not abort.
C6_EmptyDirectoryIsValid ==
    (directory.state = "ok" /\ \A k \in 1..Len(directory.files) :
                                    ~endswith(directory.files[k].name, DotCsv))
        => pc # "aborted" /\ exception = "none" /\ coordinates = <<>>

\* C7: once the dates are validated and the coordinates loaded, the run
\* reaches its end and prints the completion notice, whatever the queries
\* return.
C7_AlwaysCompletes ==
    (pc = "open") ~> (pc = "done" /\ console # <<>> /\ Last(console) = TaskComplete)

\* C8: the rows the run appended are the id-prefixed series of the
\* successful coordinates, in input order, one series after the other, each
\* in the order returned; while a series is being written, the rows of it
\* written so far follow those of the coordinates before it.
C8_IdPrefixedSeries ==
    pc # "killed" =>
        Written =
            IF pc = "rows"
            THEN SeriesUpTo(idx - 1) \o SubSeq(IdPrefixed(idx), 1, rowIdx - 1)
            ELSE SeriesUpTo(Len(served))

\* A run ended after two successful coordinates of two days each
C8_Witness ==
    /\ pc = "done"
    /\ Len(served) = 2
    /\ Succeeded(1) /\ Succeeded(2)
    /\ Len(Written) = 4
    /\ Written[3][1] = coordinates[2].id

\* C9: every coordinate whose query returned a non-success status has
\* exactly one failure report, and the report holds the coordinate's id, its
\* lon and lat, the status code and the response body.
C9_ReportCarriesId ==
    /\ Cardinality(ErrorLines) = Cardinality({i \in 1..Len(served) : Failed(i)})
    /\ \A i \in 1..Len(served) : Failed(i) =>
        \E k \in ErrorLines :
            /\ Contains(console[k], coordinates[i].id)
            /\ Contains(console[k], coordinates[i].lon)
            /\ Contains(console[k], coordinates[i].lat)
            /\ Contains(console[k], ToString(served[i].status_code))
            /\ Contains(console[k], served[i].text)

====
